---- MODULE Spec2Model ----
(***************************************************************************)
(* Model of the FileUpload component (src/src/components/FileUpload.tsx):  *)
(* the upload coordinator (uploadFile), the job status tracker             *)
(* (fetchScrapRecords and the polling useEffect) and the file selection;   *)
(* and of the upload-excel edge function                                   *)
(* (src/supabase/functions/upload-excel/index.ts), which validates an      *)
(* uploaded file, decodes it as CSV or as a spreadsheet and answers with   *)
(* the decoded table.                                                      *)
(*                                                                         *)
(* React state updates made by one handler are applied as one step, and    *)
(* the polling effect (cleanup of the previous instance, then the new      *)
(* instance) runs in the same step whenever one of its dependencies        *)
(* [isPolling, currentFileId] changed.  Every await of a network request   *)
(* is a suspension point: the request stays in flight until a separate     *)
(* step delivers its response, whose content is an input of that step.     *)
(***************************************************************************)
EXTENDS Integers, Sequences, FiniteSets, TLC

\* ---------------------------------------------------------------- bounds
MaxJobs == 2            \* uploads the backend acknowledges with a fresh id
MaxInFlight == 2        \* status fetches in flight at once
MaxLines == 3           \* lines of a CSV text, rows of a worksheet

\* ------------------------------------------------------- values and inputs
\* useState<string | null>(null): the job id before any upload.
Null == 0
\* data.file_id || data.id when the body has neither field.
Undefined == -1

JobIds == 1..MaxJobs

Status == {"pending", "done", "failed"}

\* Bodies GET /files/scrap_records/{id}/ can answer with: no record yet,
\* every record done, a record pending, and a record failed with the
\* others done.
Snapshots ==
  { <<>>, <<"done">>, <<"done", "done">>, <<"pending", "done">>,
    <<"done", "failed">> }

\* A job id is truthy unless it is null or undefined.
TruthyId(v) == v # Null /\ v # Undefined

\* A string is truthy unless it is "" (an absent field reads as "" here).
TruthyStr(s) == s # ""

\* Bodies an accepted upload can answer with, for the job id j it created.
OkBodies(j) ==
  { [file_id |-> j, id |-> Undefined],
    [file_id |-> Undefined, id |-> j],
    [file_id |-> Undefined, id |-> Undefined] }

\* Bodies a non-2xx upload answer can carry ("" is an absent field).
ErrBodies ==
  { [detail |-> "bad header", reason |-> ""],
    [detail |-> "", reason |-> "bad header"],
    [detail |-> "", reason |-> ""] }

\* Messages of the errors fetch() / response.json() throw themselves.
ThrownMessages == {"Failed to fetch", ""}

\* ------------------------------------------- upload-excel: values and inputs
\* A string is the sequence of its characters, so that trim, split,
\* replace and endsWith work on it as they do in the function.  Headers
\* and cells are such strings too.

\* obj[header] = row[index] for an index the row has no cell at, and a cell
\* sheet_to_json left empty: undefined.  Not a string of characters.
Hole == << "undefined" >>

\* The formData of a request that carries no 'file' entry.
NoFile == [present |-> FALSE, name |-> <<>>, type |-> "",
           content |-> [kind |-> "none", text |-> <<>>, data |-> <<>>]]

\* No request served yet.
NoResponse == [status |-> 0, error |-> "", decodedBy |-> "none",
               sheetName |-> "", totalRows |-> 0, totalColumns |-> 0,
               headers |-> <<>>, data |-> <<>>, preview |-> <<>>]

\* data: parsedData.slice(0, 100) and preview: parsedData.slice(0, 5).
DataLimit == 100
PreviewLimit == 5

\* Sequences over S of length at most n.
SeqsUpTo(S, n) == UNION { [1..k -> S] : k \in 0..n }

\* Lines a CSV text is made of:  a,b   b   a,b,a   (empty)   (one space)
\*  a ,"b"    a"b,c    ,b
CsvLines ==
  { << "a", ",", "b" >>,
    << "b" >>,
    << "a", ",", "b", ",", "a" >>,
    << >>,
    << " " >>,
    << " ", "a", " ", ",", "\"", "b", "\"" >>,
    << "a", "\"", "b", ",", "c" >>,
    << ",", "b" >> }

RECURSIVE JoinLines(_)
JoinLines(ls) ==
  IF ls = << >> THEN << >>
  ELSE IF Len(ls) = 1 THEN ls[1]
  ELSE ls[1] \o << "\n" >> \o JoinLines(Tail(ls))

\* Texts file.text() can return for a CSV file.
CsvTexts == { JoinLines(ls) : ls \in SeqsUpTo(CsvLines, MaxLines) }

\* Rows sheet_to_json(worksheet, { header: 1 }) can return: an empty row,
\* full rows, a short and a long row, a repeated and an empty header cell,
\* and rows with an empty cell.
SheetRows ==
  { << >>,
    << <<"a">>, <<"b">> >>,
    << <<"b">> >>,
    << <<"a">>, <<"b">>, <<"a">> >>,
    << <<"a">>, <<"a">> >>,
    << <<>>, <<"b">> >>,
    << Hole, <<"b">> >>,
    << <<"a">>, Hole >> }

\* Worksheets, as the rows sheet_to_json returns for them.
Sheets == SeqsUpTo(SheetRows, MaxLines)

\* What file.text() returns for the bytes of a workbook.
BinaryText == << "P", "K" >>

TextContent(t) == [kind |-> "text", text |-> t, data |-> << >>]
SheetContent(d) == [kind |-> "sheet", text |-> BinaryText, data |-> d]
CorruptContent == [kind |-> "corrupt", text |-> BinaryText, data |-> << >>]

FileNames ==
  { << "d", ".", "c", "s", "v" >>,
    << "D", ".", "C", "S", "V" >>,
    << "d", ".", "x", "l", "s", "x" >>,
    << "d", ".", "x", "l", "s" >>,
    << "d", ".", "t", "x", "t" >>,
    << "d" >> }

FileTypes ==
  { "text/csv", "application/vnd.ms-excel",
    "application/vnd.openxmlformats-officedocument.spreadsheetml.sheet",
    "application/octet-stream", "" }

\* Contents every file name and type is served with.
SomeContents ==
  { TextContent(<< >>),
    TextContent(<< "a", ",", "b", "\n", "b" >>),
    SheetContent(<< << <<"a">>, <<"b">> >>, << <<"b">> >> >>),
    CorruptContent }

\* Files a request can carry: every name and type with a few contents,
\* every CSV text as d.csv, every worksheet as d.xlsx.
Files ==
  { [present |-> TRUE, name |-> n, type |-> t, content |-> c] :
      n \in FileNames, t \in FileTypes, c \in SomeContents }
  \cup
  { [present |-> TRUE, name |-> << "d", ".", "c", "s", "v" >>,
     type |-> "text/csv", content |-> TextContent(t)] : t \in CsvTexts }
  \cup
  { [present |-> TRUE, name |-> << "d", ".", "x", "l", "s", "x" >>,
     type |-> "application/vnd.openxmlformats-officedocument.spreadsheetml.sheet",
     content |-> SheetContent(d)] : d \in Sheets }

VARIABLES
  uploadedFile,     \* TRUE iff a file is selected (uploadedFile !== null)
  isProcessing,
  uploadSuccess,
  showFilesList,
  scrapRecords,     \* stored snapshot: sequence of record statuses
  isPolling,
  currentFileId,
  timerActive,      \* the current effect instance holds a live intervalId
  polls,            \* status fetches in flight, in the order they were issued
  uploadCall,       \* the suspended uploadFile call, with its closure
  jobsCreated,      \* ids handed out by the backend so far
  \* ---- observation variables (no effect on the program)
  lastPoll,         \* the status fetch whose response the last step handled
  lastSubmit,       \* the uploadFile call the last step finished
  toasted,          \* jobs whose "Processing complete" toast was raised
  \* ---- the upload-excel function
  request,          \* the file of the request served last
  response          \* the Response the function returned for it

vars == << uploadedFile, isProcessing, uploadSuccess, showFilesList,
           scrapRecords, isPolling, currentFileId, timerActive, polls,
           uploadCall, jobsCreated, lastPoll, lastSubmit, toasted,
           request, response >>

decodeVars == << request, response >>

selectionVars == << uploadedFile, uploadSuccess >>
listVars == << showFilesList >>
trackerVars == << scrapRecords, isPolling, currentFileId, timerActive, polls >>
trackerObs == << toasted >>

NoCall == [active |-> FALSE, showFilesList |-> FALSE, requests |-> 0]
NoBody == [detail |-> "", reason |-> ""]
NoSubmit == [outcome |-> "none", requests |-> 0, listRequests |-> 0,
             description |-> "", body |-> NoBody]
\* outcome: "ok" or "failed"; job: the fileId the fetch was made for;
\* late: a fetch issued after it for the same job had already stored its
\* snapshot; stored: the step ran setScrapRecords; stopped: the step ran
\* setIsPolling(false) and raised the "Processing complete" toast; again:
\* it did so for a job whose toast had been raised before; cleared: the
\* interval callback ran clearInterval on the live timer; body: the body of
\* the response.
NoPoll == [outcome |-> "none", job |-> Null, late |-> FALSE,
           stored |-> FALSE, stopped |-> FALSE, again |-> FALSE,
           cleared |-> FALSE, body |-> <<>>]

Init ==
  /\ uploadedFile = FALSE
  /\ isProcessing = FALSE
  /\ uploadSuccess = FALSE
  /\ showFilesList = FALSE
  /\ scrapRecords = <<>>
  /\ isPolling = FALSE
  /\ currentFileId = Null
  /\ timerActive = FALSE
  /\ polls = <<>>
  /\ uploadCall = NoCall
  /\ jobsCreated = 0
  /\ lastPoll = NoPoll
  /\ lastSubmit = NoSubmit
  /\ toasted = {}
  /\ request = NoFile
  /\ response = NoResponse

\* ------------------------------------------------------- file selection

\* onDrop: the dropzone is rendered while no file is selected and ignores
\* pointer events while isProcessing.
onDrop(n) ==
  /\ ~uploadedFile
  /\ ~isProcessing
  /\ IF n > 0
     THEN uploadedFile' = TRUE /\ uploadSuccess' = FALSE
     ELSE UNCHANGED selectionVars
  /\ UNCHANGED decodeVars
  /\ lastPoll' = NoPoll
  /\ lastSubmit' = NoSubmit
  /\ UNCHANGED << isProcessing, uploadCall, jobsCreated >>
  /\ UNCHANGED << listVars, trackerVars, trackerObs >>

\* removeFile that also detaches the job: it clears the polling flag, the
\* job id and the stored snapshot along with the selection.
removeFileResetsTracker ==
  /\ uploadedFile
  /\ uploadedFile' = FALSE
  /\ uploadSuccess' = FALSE
  /\ isPolling' = FALSE
  /\ currentFileId' = Null
  /\ scrapRecords' = <<>>
  /\ polls' = [k \in 1..Len(polls) |-> [polls[k] EXCEPT !.clears = FALSE]]
  /\ timerActive' = FALSE
  /\ UNCHANGED decodeVars
  /\ lastPoll' = NoPoll
  /\ lastSubmit' = NoSubmit
  /\ UNCHANGED << isProcessing, uploadCall, jobsCreated >>
  /\ UNCHANGED << listVars, trackerObs >>

\* removeFile: the X button is enabled whenever a file is shown.
removeFile ==
  /\ uploadedFile
  /\ uploadedFile' = FALSE
  /\ uploadSuccess' = FALSE
  /\ UNCHANGED decodeVars
  /\ lastPoll' = NoPoll
  /\ lastSubmit' = NoSubmit
  /\ UNCHANGED << isProcessing, uploadCall, jobsCreated >>
  /\ UNCHANGED << listVars, trackerVars, trackerObs >>

\* ----------------------------------------------------------- files listing

\* The Show/Hide Output button.  The effect on [showFilesList] calls
\* fetchFilesList when the list becomes visible; that request and the state
\* it loads (isLoadingFiles, fileRecords) belong to the files listing view
\* and are not part of the model.
toggleFilesList ==
  /\ showFilesList' = ~showFilesList
  /\ UNCHANGED decodeVars
  /\ lastPoll' = NoPoll
  /\ lastSubmit' = NoSubmit
  /\ UNCHANGED << isProcessing, uploadCall, jobsCreated >>
  /\ UNCHANGED << selectionVars, trackerVars, trackerObs >>

\* ------------------------------------------------------ job status tracker

\* AllDone that takes every terminal status, failed as well as done.
AllTerminal(data) == \A i \in 1..Len(data) : data[i] \in {"done", "failed"}

\* An all-done test that waits for records: a body without any record
\* does not pass.
AllDoneNonEmpty(data) ==
  data # <<>> /\ \A i \in 1..Len(data) : data[i] = "done"

\* data.every(record => record.status === 'done')
AllDone(data) == \A i \in 1..Len(data) : data[i] = "done"

\* The request fetchScrapRecords(fileId) sends.
\* clears: the caller is an interval callback of the effect instance that
\* is still mounted, so that its clearInterval(intervalId) after the await
\* would clear the live timer (the initial fetch has no such continuation,
\* and the intervalId of an instance that was cleaned up is dead).
NewPoll(fileId, kind) ==
  [job |-> fileId, clears |-> (kind = "interval"), late |-> FALSE]

\* The requests in flight without the i-th.
RemoveAt(ps, i) == SubSeq(ps, 1, i - 1) \o SubSeq(ps, i + 1, Len(ps))

\* The requests left in flight once the response of the i-th has been
\* stored: those issued before it for the same job are late from then on.
Overtake(ps, i) ==
  RemoveAt([k \in 1..Len(ps) |->
              IF k < i /\ ps[k].job = ps[i].job
              THEN [ps[k] EXCEPT !.late = TRUE] ELSE ps[k]], i)

\* PollingEffect without the fetch on attach: the new instance only
\* starts the interval, so the first fetch waits for the first tick.
PollingEffectNoFirstFetch(np, nid, ps, ta) ==
  IF np = isPolling /\ nid = currentFileId
  THEN /\ polls' = ps
       /\ timerActive' = ta
  ELSE LET old == [k \in 1..Len(ps) |-> [ps[k] EXCEPT !.clears = FALSE]] IN
       IF np /\ TruthyId(nid)
       THEN /\ polls' = old
            /\ timerActive' = TRUE
       ELSE /\ polls' = old
            /\ timerActive' = FALSE

\* PollingEffect with a cleanup that is not idempotent: it flips the timer
\* instead of clearing it, so cleaning up a timer that is already cleared
\* (or was never created) starts one.
PollingEffectToggles(np, nid, ps, ta) ==
  IF np = isPolling /\ nid = currentFileId
  THEN /\ polls' = ps
       /\ timerActive' = ta
  ELSE LET old == [k \in 1..Len(ps) |-> [ps[k] EXCEPT !.clears = FALSE]] IN
       IF np /\ TruthyId(nid)
       THEN /\ polls' = Append(old, NewPoll(nid, "initial"))
            /\ timerActive' = TRUE
       ELSE /\ polls' = old
            /\ timerActive' = ~ta

\* The polling effect, run after a handler left isPolling = np and
\* currentFileId = nid, the requests ps in flight and the timer state ta.
\* Unchanged dependencies: the effect does not run.  Otherwise the cleanup
\* of the previous instance clears its interval, and the new instance, when
\* isPolling && currentFileId, fetches at once and starts a new interval.
PollingEffect(np, nid, ps, ta) ==
  IF np = isPolling /\ nid = currentFileId
  THEN /\ polls' = ps
       /\ timerActive' = ta
  ELSE LET old == [k \in 1..Len(ps) |-> [ps[k] EXCEPT !.clears = FALSE]] IN
       IF np /\ TruthyId(nid)
       THEN /\ polls' = Append(old, NewPoll(nid, "initial"))
            /\ timerActive' = TRUE
       ELSE /\ polls' = old
            /\ timerActive' = FALSE

\* The setInterval callback up to its await: one more status fetch for the
\* job id the effect instance closed over.
intervalTick ==
  /\ timerActive
  /\ Len(polls) < MaxInFlight
  /\ polls' = Append(polls, NewPoll(currentFileId, "interval"))
  /\ UNCHANGED decodeVars
  /\ lastPoll' = NoPoll
  /\ lastSubmit' = NoSubmit
  /\ UNCHANGED << scrapRecords, isPolling, currentFileId, timerActive >>
  /\ UNCHANGED << isProcessing, uploadCall, jobsCreated >>
  /\ UNCHANGED << selectionVars, listVars, trackerObs >>

\* A store that patches the snapshot in place: the records of the response
\* overwrite the first records of the stored snapshot and the rest stays.
MergeSnapshot(stored, data) ==
  [k \in 1..(IF Len(stored) > Len(data) THEN Len(stored) ELSE Len(data)) |->
     IF k <= Len(data) THEN data[k] ELSE stored[k]]

\* setScrapRecords(data): the stored snapshot becomes the body.
StoreSnapshot(stored, data) == data

\* fetchScrapRecords after its await, for the i-th request in flight,
\* response ok with body data; for an interval fetch, followed by the rest
\* of the interval callback.
pollResponseOk(i, data) ==
  /\ i \in 1..Len(polls)
  /\ scrapRecords' = StoreSnapshot(scrapRecords, data)
  /\ isPolling' = IF AllDone(data) THEN FALSE ELSE isPolling
  /\ toasted' = IF AllDone(data) THEN toasted \cup {polls[i].job} ELSE toasted
  /\ PollingEffect(isPolling', currentFileId, Overtake(polls, i),
                   IF AllDone(data) /\ polls[i].clears
                   THEN FALSE ELSE timerActive)
  /\ UNCHANGED decodeVars
  /\ lastPoll' = [outcome |-> "ok", job |-> polls[i].job,
                  late |-> polls[i].late, stored |-> TRUE,
                  stopped |-> AllDone(data),
                  again |-> AllDone(data) /\ polls[i].job \in toasted,
                  cleared |-> AllDone(data) /\ polls[i].clears,
                  body |-> data]
  /\ lastSubmit' = NoSubmit
  /\ UNCHANGED currentFileId
  /\ UNCHANGED << isProcessing, uploadCall, jobsCreated >>
  /\ UNCHANGED << selectionVars, listVars >>

\* pollResponseFailed giving up: the failure stops the polling loop.
pollResponseFailedStops(i) ==
  /\ i \in 1..Len(polls)
  /\ isPolling' = FALSE
  /\ PollingEffect(FALSE, currentFileId, RemoveAt(polls, i), timerActive)
  /\ UNCHANGED decodeVars
  /\ lastPoll' = [outcome |-> "failed", job |-> polls[i].job,
                  late |-> polls[i].late, stored |-> FALSE,
                  stopped |-> TRUE, again |-> FALSE,
                  cleared |-> FALSE, body |-> <<>>]
  /\ lastSubmit' = NoSubmit
  /\ UNCHANGED << scrapRecords, currentFileId >>
  /\ UNCHANGED << isProcessing, uploadCall, jobsCreated >>
  /\ UNCHANGED << selectionVars, listVars, trackerObs >>

\* fetchScrapRecords after its await, for the i-th request in flight, on a
\* network error or a non-2xx answer: the catch block logs and returns false.
pollResponseFailed(i) ==
  /\ i \in 1..Len(polls)
  /\ polls' = RemoveAt(polls, i)
  /\ UNCHANGED decodeVars
  /\ lastPoll' = [outcome |-> "failed", job |-> polls[i].job,
                  late |-> polls[i].late, stored |-> FALSE,
                  stopped |-> FALSE, again |-> FALSE,
                  cleared |-> FALSE, body |-> <<>>]
  /\ lastSubmit' = NoSubmit
  /\ UNCHANGED << scrapRecords, isPolling, currentFileId, timerActive >>
  /\ UNCHANGED << isProcessing, uploadCall, jobsCreated >>
  /\ UNCHANGED << selectionVars, listVars, trackerObs >>

\* -------------------------------------------------------- upload coordinator

\* data.file_id || data.id
JobIdOf(body) == IF TruthyId(body.file_id) THEN body.file_id ELSE body.id

\* RejectMessage reading the field `reason` of the body instead of `detail`.
RejectMessageFromReason(body) ==
  IF TruthyStr(body.reason) THEN body.reason ELSE "Upload failed"

\* error.detail || 'Upload failed'
RejectMessage(body) ==
  IF TruthyStr(body.detail) THEN body.detail ELSE "Upload failed"

\* error.message || "Failed to upload the file"
ToastDescription(message) ==
  IF TruthyStr(message) THEN message ELSE "Failed to upload the file"

\* uploadFile up to its await: one POST /upload/ with the selected file.
\* The Upload button is disabled while isProcessing || uploadSuccess.
\* The call closes over the showFilesList of the render it was made in.
uploadFile ==
  /\ uploadedFile
  /\ ~isProcessing
  /\ ~uploadSuccess
  /\ isProcessing' = TRUE
  /\ uploadCall' = [active |-> TRUE, showFilesList |-> showFilesList,
                    requests |-> 1]
  /\ UNCHANGED decodeVars
  /\ lastPoll' = NoPoll
  /\ lastSubmit' = NoSubmit
  /\ UNCHANGED jobsCreated
  /\ UNCHANGED << selectionVars, listVars, trackerVars, trackerObs >>

\* uploadFile after its await, response ok with a JSON body: the success
\* path, with the fetchFilesList() refresh it makes when the list was
\* visible, and the finally block.  (The answer is delivered while the
\* fetches in flight leave room for the first fetch of the new job.)
uploadResponseOk(body) ==
  /\ uploadCall.active
  /\ jobsCreated < MaxJobs
  /\ Len(polls) < MaxInFlight
  /\ jobsCreated' = jobsCreated + 1
  /\ uploadSuccess' = TRUE
  /\ currentFileId' = JobIdOf(body)
  /\ isPolling' = TRUE
  /\ isProcessing' = FALSE
  /\ uploadCall' = NoCall
  /\ PollingEffect(TRUE, currentFileId', polls, timerActive)
  /\ UNCHANGED decodeVars
  /\ lastPoll' = NoPoll
  /\ lastSubmit' = [outcome |-> "success",
                    requests |-> uploadCall.requests,
                    listRequests |-> IF uploadCall.showFilesList THEN 1 ELSE 0,
                    description |-> "uploaded and processing started",
                    body |-> NoBody]
  /\ UNCHANGED << uploadedFile, showFilesList, scrapRecords >>
  /\ UNCHANGED trackerObs

\* uploadCatch with a retry: the first failure sends the POST once more
\* instead of giving up.
uploadCatchRetries(kind, message, body) ==
  IF uploadCall.requests < 2
  THEN /\ uploadCall' = [uploadCall EXCEPT !.requests = @ + 1]
       /\ UNCHANGED decodeVars
       /\ lastPoll' = NoPoll
       /\ lastSubmit' = NoSubmit
       /\ UNCHANGED << isProcessing, jobsCreated >>
       /\ UNCHANGED << selectionVars, listVars, trackerVars, trackerObs >>
  ELSE /\ isProcessing' = FALSE
       /\ uploadCall' = NoCall
       /\ UNCHANGED decodeVars
       /\ lastPoll' = NoPoll
       /\ lastSubmit' = [outcome |-> kind,
                         requests |-> uploadCall.requests,
                         listRequests |-> 0,
                         description |-> ToastDescription(message),
                         body |-> body]
       /\ UNCHANGED jobsCreated
       /\ UNCHANGED << selectionVars, listVars, trackerVars, trackerObs >>

\* The catch and finally blocks of uploadFile for an error with this
\* message: the "Upload failed" toast, then setIsProcessing(false).
uploadCatch(kind, message, body) ==
  /\ isProcessing' = FALSE
  /\ uploadCall' = NoCall
  /\ UNCHANGED decodeVars
  /\ lastPoll' = NoPoll
  /\ lastSubmit' = [outcome |-> kind,
                    requests |-> uploadCall.requests,
                    listRequests |-> 0,
                    description |-> ToastDescription(message),
                    body |-> body]
  /\ UNCHANGED jobsCreated
  /\ UNCHANGED << selectionVars, listVars, trackerVars, trackerObs >>

\* uploadFile after its await, response not ok with a JSON body.
uploadResponseRejected(body) ==
  /\ uploadCall.active
  /\ uploadCatch("rejected", RejectMessage(body), body)

\* uploadFile after its await when fetch() rejects, or response.json()
\* throws on a body that is not JSON.
uploadThrows(message) ==
  /\ uploadCall.active
  /\ uploadCatch("thrown", message, NoBody)

\* ------------------------------------------------------------ specification

Next ==
  \/ \E n \in 0..1 : onDrop(n)
  \/ removeFile
  \/ toggleFilesList
  \/ intervalTick
  \/ \E i \in 1..Len(polls), data \in Snapshots : pollResponseOk(i, data)
  \/ \E i \in 1..Len(polls) : pollResponseFailed(i)
  \/ uploadFile
  \/ \E body \in OkBodies(jobsCreated + 1) : uploadResponseOk(body)
  \/ \E body \in ErrBodies : uploadResponseRejected(body)
  \/ \E message \in ThrownMessages : uploadThrows(message)

Spec == Init /\ [][Next]_vars

TypeOK ==
  /\ uploadedFile \in BOOLEAN /\ isProcessing \in BOOLEAN
  /\ uploadSuccess \in BOOLEAN /\ showFilesList \in BOOLEAN
  /\ isPolling \in BOOLEAN
  /\ timerActive \in BOOLEAN
  /\ scrapRecords \in Snapshots
  /\ currentFileId \in JobIds \cup {Null, Undefined}
  /\ \A i \in 1..Len(polls) : polls[i].job \in JobIds
  /\ isProcessing = uploadCall.active

\* ------------------------------------------------- upload-excel function

\* Characters String.prototype.trim removes.
Whitespace == { " ", "\t", "\r", "\n" }

RECURSIVE TrimStart(_)
TrimStart(s) ==
  IF s # << >> /\ Head(s) \in Whitespace THEN TrimStart(Tail(s)) ELSE s

RECURSIVE TrimEnd(_)
TrimEnd(s) ==
  IF s # << >> /\ s[Len(s)] \in Whitespace
  THEN TrimEnd(SubSeq(s, 1, Len(s) - 1)) ELSE s

\* s.trim()
Trim(s) == TrimEnd(TrimStart(s))

\* s.replace(/"/g, ''): every double quote of s is removed.
RemoveQuotes(s) == SelectSeq(s, LAMBDA c : c # "\"")

\* s.endsWith(suffix)
EndsWith(s, suffix) ==
  /\ Len(s) >= Len(suffix)
  /\ SubSeq(s, Len(s) - Len(suffix) + 1, Len(s)) = suffix

\* s.split(sep) for a one-character separator.
RECURSIVE Split(_, _)
Split(s, sep) ==
  IF \E i \in 1..Len(s) : s[i] = sep
  THEN LET i == CHOOSE i \in 1..Len(s) :
                  s[i] = sep /\ \A j \in 1..(i - 1) : s[j] # sep
       IN << SubSeq(s, 1, i - 1) >> \o Split(SubSeq(s, i + 1, Len(s)), sep)
  ELSE << s >>

\* a.slice(0, n)
Slice(a, n) == SubSeq(a, 1, IF Len(a) < n THEN Len(a) ELSE n)

validTypes ==
  { "application/vnd.ms-excel",
    "application/vnd.openxmlformats-officedocument.spreadsheetml.sheet",
    "text/csv" }

isValidType(file) ==
  \/ file.type \in validTypes
  \/ EndsWith(file.name, << ".", "x", "l", "s", "x" >>)
  \/ EndsWith(file.name, << ".", "x", "l", "s" >>)
  \/ EndsWith(file.name, << ".", "c", "s", "v" >>)

\* The branch condition of the CSV path: file.name.endsWith('.csv').
IsCsvName(file) == EndsWith(file.name, << ".", "c", "s", "v" >>)

\* text.split('\n') with every line kept.
AllLines(text) == Split(text, "\n")

\* text.split('\n').filter(line => line.trim())
NonBlankLines(text) ==
  SelectSeq(Split(text, "\n"), LAMBDA line : Trim(line) # << >>)

\* A cell cleaned of its surrounding whitespace and of one surrounding
\* pair of quotes only.
UnquoteCell(v) ==
  LET t == Trim(v) IN
  IF Len(t) >= 2 /\ t[1] = "\"" /\ t[Len(t)] = "\""
  THEN SubSeq(t, 2, Len(t) - 1) ELSE t

\* v.trim().replace(/"/g, '')
CleanCell(v) == RemoveQuotes(Trim(v))

\* line.split(',').map(v => v.trim().replace(/"/g, ''))
CsvCells(line) ==
  LET raw == Split(line, ",") IN [i \in 1..Len(raw) |-> CleanCell(raw[i])]

\* obj[key] = value on an object kept as the sequence of its own
\* properties in insertion order: an existing key keeps its place and takes
\* the new value.  (No key used here is an integer index.)
SetKey(obj, key, value) ==
  IF \E i \in 1..Len(obj) : obj[i].key = key
  THEN [i \in 1..Len(obj) |->
          IF obj[i].key = key THEN [key |-> key, value |-> value] ELSE obj[i]]
  ELSE Append(obj, [key |-> key, value |-> value])

\* values[index]: undefined past the end of the array.
At(values, index) == IF index <= Len(values) THEN values[index] ELSE Hole

\* values[index] || '': undefined and '' both give ''.
OrEmpty(values, index) ==
  IF At(values, index) = Hole \/ At(values, index) = << >>
  THEN << >> ELSE At(values, index)

\* headers.forEach((header, index) => { obj[header] = values[index] || '' })
\* for the first n headers.
RECURSIVE CsvObj(_, _, _)
CsvObj(headers, values, n) ==
  IF n = 0 THEN << >>
  ELSE SetKey(CsvObj(headers, values, n - 1), headers[n], OrEmpty(values, n))

\* headers.forEach((header, index) => { obj[header] = row[index] })
\* for the first n headers.
RECURSIVE SheetObj(_, _, _)
SheetObj(headers, row, n) ==
  IF n = 0 THEN << >>
  ELSE SetKey(SheetObj(headers, row, n - 1), headers[n], At(row, n))

\* headers of the CSV path.
CsvHeaders(lines) == IF Len(lines) > 0 THEN CsvCells(lines[1]) ELSE << >>

\* parsedData of the CSV path: one object per line after the first.
CsvParsedData(lines) ==
  IF Len(lines) > 0
  THEN [i \in 1..(Len(lines) - 1) |->
          CsvObj(CsvHeaders(lines), CsvCells(lines[i + 1]),
                 Len(CsvHeaders(lines)))]
  ELSE << >>

\* String(h || '')
HeaderString(h) == IF h = Hole \/ h = << >> THEN << >> ELSE h

\* headers of the spreadsheet path.
SheetHeaders(data) ==
  IF Len(data) > 0
  THEN [i \in 1..Len(data[1]) |-> HeaderString(data[1][i])]
  ELSE << >>

\* parsedData of the spreadsheet path: one object per row after the first.
SheetParsedData(data) ==
  IF Len(data) > 0
  THEN [i \in 1..(Len(data) - 1) |->
          SheetObj(SheetHeaders(data), data[i + 1], Len(SheetHeaders(data)))]
  ELSE << >>

\* JSON.stringify of an array of objects: a property whose value is
\* undefined is left out.
Json(objs) ==
  [i \in 1..Len(objs) |-> SelectSeq(objs[i], LAMBDA p : p.value # Hole)]

\* The 400 and 500 responses.
ErrorResponse(status, error) ==
  [NoResponse EXCEPT !.status = status, !.error = error]

\* The 200 response.  decodedBy records the branch taken.
SuccessResponse(decodedBy, sheetName, headers, parsedData) ==
  [status |-> 200, error |-> "", decodedBy |-> decodedBy,
   sheetName |-> sheetName, totalRows |-> Len(parsedData),
   totalColumns |-> Len(headers), headers |-> headers,
   data |-> Json(Slice(parsedData, DataLimit)),
   preview |-> Json(Slice(parsedData, PreviewLimit))]

\* The response of the CSV path for the text of the file.
CsvResponse(text) ==
  SuccessResponse("csv", "CSV Data", CsvHeaders(NonBlankLines(text)),
                  CsvParsedData(NonBlankLines(text)))

\* The response of the spreadsheet path for the rows of the first sheet.
SheetResponse(data) ==
  SuccessResponse("spreadsheet", "Sheet1", SheetHeaders(data),
                  SheetParsedData(data))

\* Rows XLSX.read and sheet_to_json can return for the bytes of a file:
\* those of the worksheet; for a text, the library reads the text its own
\* way, and some table or an exception comes out of it.
SheetReads(content) ==
  IF content.kind = "sheet" THEN { content.data }
  ELSE IF content.kind = "text"
  THEN { << << <<"a">>, <<"b">> >>, << <<"b">> >> >> }
  ELSE { }

\* XLSX.read can throw on these bytes.
ReadThrows(content) == content.kind \in { "corrupt", "text" }

componentVars ==
  << selectionVars, listVars, trackerVars, trackerObs, isProcessing,
     uploadCall, jobsCreated, lastPoll, lastSubmit >>

\* One invocation of the handler: the request it is called with is drawn
\* when the invocation starts, and the response is returned in one step
\* (invocations share no state).
InitDecode ==
  /\ request \in Files \cup { NoFile }
  /\ response = NoResponse
  /\ uploadedFile = FALSE
  /\ isProcessing = FALSE
  /\ uploadSuccess = FALSE
  /\ showFilesList = FALSE
  /\ scrapRecords = <<>>
  /\ isPolling = FALSE
  /\ currentFileId = Null
  /\ timerActive = FALSE
  /\ polls = <<>>
  /\ uploadCall = NoCall
  /\ jobsCreated = 0
  /\ lastPoll = NoPoll
  /\ lastSubmit = NoSubmit
  /\ toasted = {}

\* The request has no file entry.
serveNoFile ==
  /\ response = NoResponse
  /\ ~request.present
  /\ response' = ErrorResponse(400, "No file provided")
  /\ UNCHANGED << request, componentVars >>

serveInvalidType ==
  /\ response = NoResponse
  /\ request.present
  /\ ~isValidType(request)
  /\ response' = ErrorResponse(400, "Invalid file type")
  /\ UNCHANGED << request, componentVars >>

serveCsv ==
  /\ response = NoResponse
  /\ request.present
  /\ isValidType(request)
  /\ IsCsvName(request)
  /\ response' = CsvResponse(request.content.text)
  /\ UNCHANGED << request, componentVars >>

serveSpreadsheet(data) ==
  /\ response = NoResponse
  /\ request.present
  /\ isValidType(request)
  /\ ~IsCsvName(request)
  /\ data \in SheetReads(request.content)
  /\ response' = SheetResponse(data)
  /\ UNCHANGED << request, componentVars >>

\* XLSX.read throws: the catch answers 500.
serveFails ==
  /\ response = NoResponse
  /\ request.present
  /\ isValidType(request)
  /\ ~IsCsvName(request)
  /\ ReadThrows(request.content)
  /\ response' = ErrorResponse(500, "Failed to process file")
  /\ UNCHANGED << request, componentVars >>

NextDecode ==
  \/ serveNoFile
  \/ serveInvalidType
  \/ serveCsv
  \/ \E data \in SheetReads(request.content) : serveSpreadsheet(data)
  \/ serveFails

SpecDecode == InitDecode /\ [][NextDecode]_vars

\* ---------------------------------------------------------------- properties

\* The tracker is Polling for a job: the polling flag is set and a job id is
\* attached (the condition of the polling effect).
Polling == isPolling /\ TruthyId(currentFileId)

\* The recurring timer is live exactly while the tracker is Polling.
TimerIffPolling == timerActive <=> Polling

\* Every record of a snapshot reports done.
EveryRecordDone(data) == \A i \in 1..Len(data) : data[i] = "done"

\* Every record of a snapshot is done or failed, and at least one is failed.
TerminalWithFailure(data) ==
  /\ \A i \in 1..Len(data) : data[i] \in {"done", "failed"}
  /\ \E i \in 1..Len(data) : data[i] = "failed"

\* C1: the tracker converges exactly once per job: the "Processing
\* complete" notification of a job fires a single time whatever the
\* interleaving of the initial and the interval fetches, and once the
\* tracker has converged no timer is left to issue a further fetch.
C1_ConvergesExactlyOnce ==
  /\ ~lastPoll.again
  /\ (~isPolling => ~timerActive)

\* C2: polls are strictly sequential: at most one status fetch is in flight.
C2_AtMostOneFetchInFlight == Len(polls) <= 1

\* C3: no two jobs are polled concurrently: the status fetches outstanding at
\* any time are all for one job.
C3_NoTwoJobsOutstanding ==
  \A k1 \in 1..Len(polls), k2 \in 1..Len(polls) : polls[k1].job = polls[k2].job

\* C4: a response fetched for a job that has been replaced is discarded:
\* while a job is attached, a response fetched for another job is neither
\* stored as the snapshot nor allowed to clear the polling flag.
C4_ReplacedJobResponseDiscarded ==
  (/\ lastPoll.outcome = "ok"
   /\ TruthyId(currentFileId)
   /\ lastPoll.job # currentFileId)
    => (~lastPoll.stored /\ ~lastPoll.stopped)

\* C5: within one job the stored snapshot moves forward in fetch order: the
\* response of a fetch is not stored once a fetch issued after it, for the
\* same job, has stored its own.
C5_SnapshotMovesForward == lastPoll.late => ~lastPoll.stored

\* C6 as stated: when every record of the snapshot just stored is done or
\* failed, with at least one failed, the tracker has converged: the polling
\* flag is cleared and the timer stopped.
C6_FailedCountsAsTerminal ==
  (lastPoll.outcome = "ok" /\ TerminalWithFailure(scrapRecords))
    => (~isPolling /\ ~timerActive)

\* C6 amended: a failed record is not terminal.  A stored snapshot converges
\* the tracker (polling flag cleared, timer stopped) if and only if every
\* record is done; any other snapshot, one with a failed record included,
\* leaves the polling flag and the timer as they were.
C6_OnlyDoneConverges ==
  [][lastPoll'.outcome = "ok" =>
       IF EveryRecordDone(scrapRecords')
       THEN ~isPolling' /\ ~timerActive'
       ELSE isPolling' = isPolling /\ timerActive' = timerActive]_vars

\* C6 witness: a snapshot whose records are all done or failed, one failed,
\* has been stored and the tracker is still Polling with its timer live.
C6_Witness ==
  /\ lastPoll.outcome = "ok"
  /\ Len(scrapRecords) > 1
  /\ TerminalWithFailure(scrapRecords)
  /\ Polling
  /\ timerActive

\* C7: a failed poll leaves the tracker Polling: the step that handles it
\* changes neither the polling flag, nor the stored snapshot, nor the timer,
\* and the timer of a Polling tracker is live, so the next tick fetches
\* again for the same job.
C7_FailedPollKeepsPolling ==
  [][lastPoll'.outcome = "failed" =>
       /\ isPolling' = isPolling
       /\ currentFileId' = currentFileId
       /\ scrapRecords' = scrapRecords
       /\ ~lastPoll'.stored
       /\ timerActive' = timerActive
       /\ TimerIffPolling']_vars

\* C7 witness: a poll has just failed while the tracker is Polling, the
\* timer is live and a tick can fire.
C7_Witness ==
  /\ lastPoll.outcome = "failed"
  /\ Polling
  /\ timerActive
  /\ ENABLED intervalTick

C9_RejectCarriesReason ==
  (lastSubmit.outcome = "rejected" /\ lastSubmit.body.reason = "bad header")
    => lastSubmit.description = "bad header"

\* C9 amended: a rejection yields an error that carries the string of the
\* body's field `detail` ("bad header" for {detail: "bad header"}) and the
\* generic "Upload failed" when the body has no `detail`, as for
\* {reason: "bad header"}; either way the step creates no job (job id and
\* upload-success flag unchanged) and neither attaches nor starts the tracker.
C9_RejectCarriesDetail ==
  [][lastSubmit'.outcome = "rejected" =>
       /\ lastSubmit'.description =
            IF lastSubmit'.body.detail # ""
            THEN lastSubmit'.body.detail ELSE "Upload failed"
       /\ currentFileId' = currentFileId
       /\ uploadSuccess' = uploadSuccess
       /\ isPolling' = isPolling
       /\ timerActive' = timerActive
       /\ polls' = polls]_vars

\* C9 witness: the backend has rejected an upload with {detail: "bad
\* header"}, no job has been created and the tracker was never attached.
C9_Witness ==
  /\ lastSubmit.outcome = "rejected"
  /\ lastSubmit.body.detail = "bad header"
  /\ lastSubmit.description = "bad header"
  /\ currentFileId = Null
  /\ ~uploadSuccess
  /\ ~isPolling
  /\ polls = <<>>

\* C10: a 2xx answer without a job identifier is no success: an upload call
\* that finished as successful has attached a job id.
C10_NoIdIsNoSuccess ==
  lastSubmit.outcome = "success"
    => (TruthyId(currentFileId) /\ Polling)

\* ------------------------------------------- properties of upload-excel

\* The file of the request was decoded by the CSV path.
DecodedAsCsv == response.status = 200 /\ response.decodedBy = "csv"

\* The file of the request was decoded by the spreadsheet path.
DecodedAsSheet == response.status = 200 /\ response.decodedBy = "spreadsheet"

\* The text of the file of the request.
RequestText == request.content.text

\* The lines of a text that hold a character other than whitespace.
NonBlank(text) ==
  { i \in 1..Len(AllLines(text)) :
      \E j \in 1..Len(AllLines(text)[i]) :
        AllLines(text)[i][j] \notin Whitespace }

\* C11: a CSV text with a header line decodes to exactly one record per
\* non-blank line after the header, and appending a blank or a
\* whitespace-only line to the text does not change the number of records.
C11_OneRecordPerNonBlankLine ==
  (DecodedAsCsv /\ NonBlank(RequestText) # {}) =>
    /\ response.totalRows = Cardinality(NonBlank(RequestText)) - 1
    /\ Len(response.data) = response.totalRows
    /\ \A blank \in { << >>, << " " >>, << " ", " " >> } :
         CsvResponse(RequestText \o << "\n" >> \o blank).totalRows
           = response.totalRows

\* A CSV text with a blank line between its header and its only record
\* was decoded.
C11_Witness ==
  /\ DecodedAsCsv
  /\ response.totalRows = 1
  /\ Len(AllLines(RequestText)) = 3
  /\ AllLines(RequestText)[2] \in { << >>, << " " >> }

\* The rows of the worksheet of the request, when its bytes are a workbook.
RequestRows == request.content.data

\* JSON null as the value of a property.
JsonNull == << "null" >>

\* The keys of a record of the response, in order.
Keys(record) == [p \in 1..Len(record) |-> record[p].key]

\* The record has the key, with the value.
HasValue(record, key, value) ==
  \E p \in 1..Len(record) : record[p].key = key /\ record[p].value = value

\* Record i of the response pads a row of n cells: every header past the
\* n-th is a key of the record with value null, and the record has no key
\* that is not a header.
PaddedAndTruncated(i, n) ==
  /\ \A k \in (n + 1)..Len(response.headers) :
       HasValue(response.data[i], response.headers[k], JsonNull)
  /\ \A p \in 1..Len(response.data[i]) :
       \E k \in 1..Len(response.headers) :
         response.data[i][p].key = response.headers[k]

\* C12: on the CSV path and on the spreadsheet path alike, a row shorter
\* than the header sequence gives a record in which each missing trailing
\* key is present with value null, and the cells of a row past the last
\* header appear under no key.
C12_ShortRowsPaddedWithNull ==
  /\ DecodedAsCsv =>
       \A i \in 1..Len(response.data) :
         PaddedAndTruncated(i,
           Len(Split(NonBlankLines(RequestText)[i + 1], ",")))
  /\ (DecodedAsSheet /\ request.content.kind = "sheet") =>
       \A i \in 1..Len(response.data) :
         PaddedAndTruncated(i, Len(RequestRows[i + 1]))

\* C13: when every row has as many cells as there are headers, every
\* record has the same keys, and the sequence of its keys is the header
\* sequence in order (one key per header).
C13_KeysAreTheHeaderSequence ==
  /\ ( /\ DecodedAsCsv
       /\ \A i \in 1..Len(response.data) :
            Len(Split(NonBlankLines(RequestText)[i + 1], ","))
              = Len(response.headers) )
     => \A i \in 1..Len(response.data) :
          Keys(response.data[i]) = response.headers
  /\ ( /\ DecodedAsSheet
       /\ request.content.kind = "sheet"
       /\ \A i \in 1..Len(response.data) :
            Len(RequestRows[i + 1]) = Len(response.headers) )
     => \A i \in 1..Len(response.data) :
          Keys(response.data[i]) = response.headers

\* C14: every header slot of a decoded table has a non-empty key: a
\* header cell that is the empty string is replaced by a positional
\* placeholder, on the CSV path and on the spreadsheet path.
C14_NoEmptyHeader ==
  (DecodedAsCsv \/ DecodedAsSheet) =>
    /\ \A k \in 1..Len(response.headers) : response.headers[k] # << >>
    /\ \A i \in 1..Len(response.data) :
         \A p \in 1..Len(response.data[i]) :
           response.data[i][p].key # << >>

\* C15: decoding input that cannot be parsed, in particular a file with no
\* non-blank line, fails with an error: the function never answers with a
\* success result of zero headers and zero rows.
C15_EmptyFileIsAnError ==
  /\ response.status = 200 =>
       ~(response.totalColumns = 0 /\ response.totalRows = 0)
  /\ ( /\ response.status # 0
       /\ request.present
       /\ request.content.kind = "text"
       /\ IsCsvName(request)
       /\ NonBlank(RequestText) = {} )
     => response.status \notin { 0, 200 }

\* The cells of the header line of the CSV text of the request, as written.
RawHeaderCells == Split(NonBlankLines(RequestText)[1], ",")

\* The characters of a cell from its first to its last non-whitespace
\* character.
Core(raw) ==
  LET nw == { i \in 1..Len(raw) : raw[i] \notin Whitespace } IN
  IF nw = {} THEN << >>
  ELSE SubSeq(raw, CHOOSE i \in nw : \A j \in nw : i <= j,
                   CHOOSE i \in nw : \A j \in nw : i >= j)

\* The core of a cell without one pair of quotes around it.
WithoutSurroundingQuotes(raw) ==
  IF Len(Core(raw)) >= 2 /\ Head(Core(raw)) = "\""
     /\ Core(raw)[Len(Core(raw))] = "\""
  THEN SubSeq(Core(raw), 2, Len(Core(raw)) - 1)
  ELSE Core(raw)

\* C17 (as stated): cleaning a CSV cell removes only its surrounding
\* whitespace and its surrounding quotes; the characters inside, an
\* interior double quote included, are preserved.
C17_InteriorQuotePreserved ==
  (DecodedAsCsv /\ NonBlank(RequestText) # {}) =>
    \A k \in 1..Len(RawHeaderCells) :
      response.headers[k] = WithoutSurroundingQuotes(RawHeaderCells[k])

\* C17 (amended): cleaning a CSV cell removes the whitespace around it and
\* then every double quote in it, interior ones included; every other
\* character is kept, in order.
C17_EveryQuoteRemoved ==
  (DecodedAsCsv /\ NonBlank(RequestText) # {}) =>
    /\ Len(response.headers) = Len(RawHeaderCells)
    /\ \A k \in 1..Len(RawHeaderCells) :
         /\ \A j \in 1..Len(response.headers[k]) :
              response.headers[k][j] # "\""
         /\ response.headers[k]
              = SelectSeq(Core(RawHeaderCells[k]), LAMBDA c : c # "\"")

\* A header cell with a double quote between two letters was cleaned.
C17_Witness ==
  /\ DecodedAsCsv
  /\ NonBlank(RequestText) # {}
  /\ \E k \in 1..Len(RawHeaderCells) :
       /\ RawHeaderCells[k] = << "a", "\"", "b" >>
       /\ response.headers[k] = << "a", "b" >>

\* The function accepted the file of the request: it passed validation.
Accepted == request.present /\ response.status \in { 200, 500 }

\* C18: the decoding path follows the format of the file: an accepted file
\* is decoded by the CSV path only if its extension or its MIME type says
\* CSV, and a file accepted for its MIME type text/csv, whatever its name,
\* is decoded by the CSV path and not handed to the spreadsheet parser.
C18_CsvFormatDecodedAsCsv ==
  Accepted =>
    /\ DecodedAsCsv =>
         (request.type = "text/csv" \/ IsCsvName(request))
    /\ request.type = "text/csv" => DecodedAsCsv

\* ---------------------------------------- properties of the tracker (cont.)

\* C16: attaching a job starts polling at once: the step in which a
\* successful upload returns a job id leaves the tracker Polling with its
\* timer live and issues the first status fetch for that job, before any
\* tick of the timer.
C16_FirstFetchOnAttach ==
  [][ (lastSubmit'.outcome = "success" /\ TruthyId(currentFileId')) =>
        /\ isPolling'
        /\ timerActive'
        /\ Len(polls') = Len(polls) + 1
        /\ polls'[Len(polls')].job = currentFileId' ]_vars

\* An upload has just returned a job id and the fetch for it is in flight.
C16_Witness ==
  /\ lastSubmit.outcome = "success"
  /\ TruthyId(currentFileId)
  /\ Polling
  /\ polls # <<>>
  /\ polls[Len(polls)].job = currentFileId

\* C19: cancellation is idempotent.  A step that stops the polling loop
\* leaves it stopped once, however many times the timer is cleared in it
\* (by the interval callback and again by the effect cleanup), and issues
\* no request; when the loop was stopped already the step changes no
\* tracker state, and a cleanup that runs while no timer exists creates
\* none.
C19_CancelIsIdempotent ==
  [][ /\ lastPoll'.stopped =>
           /\ ~isPolling' /\ ~timerActive'
           /\ currentFileId' = currentFileId
           /\ Len(polls') = Len(polls) - 1
      /\ (lastPoll'.stopped /\ ~isPolling) =>
           UNCHANGED << isPolling, currentFileId, timerActive >>
      /\ (~timerActive /\ ~(isPolling' /\ TruthyId(currentFileId'))) =>
           /\ ~timerActive'
           /\ Len(polls') <= Len(polls) ]_vars

\* The interval callback cleared the live timer on allDone and the effect
\* cleanup of the same step cleared it again.
C19_Witness ==
  /\ lastPoll.stopped
  /\ lastPoll.cleared
  /\ ~isPolling
  /\ ~timerActive

\* C20: the stored snapshot is only ever replaced wholesale: a step that
\* stores a snapshot leaves exactly the body of the response it handled,
\* record for record, and no other step changes the snapshot.
C20_SnapshotReplacedWholesale ==
  [][ /\ lastPoll'.stored => scrapRecords' = lastPoll'.body
      /\ ~lastPoll'.stored => scrapRecords' = scrapRecords ]_vars

\* A response with one record has replaced a stored snapshot.
C20_Witness ==
  /\ lastPoll.stored
  /\ lastPoll.late
  /\ lastPoll.body = << "done" >>
  /\ scrapRecords = << "done" >>

\* C21: an empty snapshot converges: the step that handles a successful
\* poll whose body has no record runs the convergence (the all-done test
\* holds vacuously), stores the empty snapshot and leaves the tracker not
\* polling with no timer, whether or not the job will have records later.
C21_EmptySnapshotConverges ==
  (lastPoll.outcome = "ok" /\ lastPoll.body = <<>>) =>
    /\ lastPoll.stopped
    /\ lastPoll.job \in toasted
    /\ scrapRecords = <<>>
    /\ ~isPolling
    /\ ~timerActive

\* The first response for a job came back without records and the tracker
\* converged on it.
C21_Witness ==
  /\ lastPoll.outcome = "ok"
  /\ lastPoll.body = <<>>
  /\ lastPoll.stopped
  /\ ~lastPoll.again
  /\ ~lastPoll.late
  /\ lastPoll.job = currentFileId
  /\ ~isPolling

\* C22: removing the selected file does not touch the tracker: the step
\* clears the selection and the upload-success flag and leaves the polling
\* flag, the job id, the stored snapshot, the timer and the fetches in
\* flight as they were, so a job that was Polling keeps being polled.
C22_RemoveFileLeavesTracker ==
  [][ (uploadedFile /\ ~uploadedFile') =>
        /\ ~uploadSuccess'
        /\ UNCHANGED << isPolling, currentFileId, scrapRecords,
                        timerActive, polls >> ]_vars

\* The file was removed while its job was Polling with a snapshot stored:
\* the job is still attached, its timer live and the snapshot in place.
C22_Witness ==
  /\ ~uploadedFile
  /\ ~uploadSuccess
  /\ Polling
  /\ timerActive
  /\ scrapRecords # <<>>

====
